---- MODULE Spec2Model ----
(***************************************************************************)
(* Model of the Mario experiment: the browser game (public/game.js) and    *)
(* the decision server (server.js).                                        *)
(*                                                                         *)
(* Arithmetic.  The game computes in IEEE doubles.  The model is in fixed  *)
(* point: velocities are in 1/VS px/s and positions in 1/PX px, with       *)
(* PX = 60 * VS, so that one step of dt = 1/60 s moves the body by exactly *)
(* v position units (v * dt px = v / 60 / VS px).  The 0.01 px inset of    *)
(* the collision code is EPS = PX / 100 units.  The only rounding is the   *)
(* friction product vx * 0.85, rounded to the nearest velocity unit.       *)
(* Time is in thirds of a millisecond, so that a frame of 1/60 s is 50.    *)
(***************************************************************************)
EXTENDS Integers, Sequences, FiniteSets, TLC

VARIABLES player, keys, aiEnabled, lastAction, actionUntil,
          now, ticks, pending, presses, latency,
          openai, inbox, reply, served, rejected, probe,
          policy, call

vars == <<player, keys, aiEnabled, lastAction, actionUntil,
          now, ticks, pending, presses, latency,
          openai, inbox, reply, served, rejected, probe,
          policy, call>>

clientVars == <<player, keys, aiEnabled, lastAction, actionUntil,
                now, ticks, pending, presses, latency, probe>>

serverVars == <<openai, inbox, reply, served, rejected>>

\* policy: what the remote service answers in the runs where it always
\* answers the same; call: the function applied alone, its argument and its
\* result, in the runs that apply one function to chosen arguments
aloneVars == <<policy, call>>

(***************************************************************************)
(* Bounds of the model.                                                    *)
(***************************************************************************)
MaxTicks == 3
MaxPresses == 1
ManualTicks == 32
E2ETicks == 1450
MaxRequests == 2

(***************************************************************************)
(* Units and program constants (game.js 4-11, 16-27).                      *)
(***************************************************************************)
VS == 100
PX == 60 * VS
EPS == PX \div 100
MS == 3
FRAME == (1000 * MS) \div 60
HOLD == 120 * MS

TILE == 32 * PX
LEVEL_W == 120
LEVEL_H == 20
GRAVITY == 1800
MOVE_ACCEL == 1800
MAX_SPEED_X == 220
JUMP_VY == -520
FRICTION == 85
PLAYER_W == 26 * PX
PLAYER_H == 30 * PX
GOAL_X == (LEVEL_W - 3) * TILE

Sign(v) == IF v > 0 THEN 1 ELSE IF v < 0 THEN -1 ELSE 0
Abs(v) == IF v < 0 THEN -v ELSE v
Min(a, b) == IF a < b THEN a ELSE b
Max(a, b) == IF a > b THEN a ELSE b
\* a / b rounded to the nearest integer, ties away from zero (b > 0)
RoundDiv(a, b) == Sign(a) * ((2 * Abs(a) + b) \div (2 * b))
\* Math.round: nearest integer, ties towards +infinity
MathRound(a, b) == (2 * a + b) \div (2 * b)

(***************************************************************************)
(* The level (makeLevel): later writes win over earlier ones.              *)
(***************************************************************************)
makeLevel ==
  [ty \in 0..(LEVEL_H - 1) |-> [tx \in 0..(LEVEL_W - 1) |->
     IF tx = LEVEL_W - 3 /\ ty <= LEVEL_H - 3 /\ ty > LEVEL_H - 12 THEN 1
     ELSE IF ty = LEVEL_H - 3 /\ tx \in {60, 85} THEN 1
     ELSE IF ty = LEVEL_H - 2 /\ (tx \in 48..51 \/ tx \in 70..73) THEN 0
     ELSE IF ty = 17 /\ (tx \in 10..19 \/ tx \in 35..44) THEN 1
     ELSE IF ty = 16 /\ tx \in 22..27 THEN 1
     ELSE IF ty >= LEVEL_H - 2 THEN 1
     ELSE 0]]

WORLD == makeLevel

\* the cell line 88 of game.js reads, <<>> when line 87 returns first
worldIndex(tx, ty) ==
  IF tx < 0 \/ ty < 0 \/ tx >= LEVEL_W \/ ty >= LEVEL_H THEN <<>>
  ELSE <<ty, tx>>

\* an isSolidTile for which nothing is solid outside the level
isSolidTileOpen(tx, ty) ==
  IF tx < 0 \/ ty < 0 \/ tx >= LEVEL_W \/ ty >= LEVEL_H THEN FALSE
  ELSE WORLD[ty][tx] = 1

isSolidTile(tx, ty) ==
  IF tx < 0 \/ ty < 0 \/ tx >= LEVEL_W \/ ty >= LEVEL_H THEN TRUE
  ELSE WORLD[ty][tx] = 1

(***************************************************************************)
(* The body.                                                               *)
(***************************************************************************)
\* a reset that turns the body round instead of facing it right
resetTurning(p) ==
  [p EXCEPT !.x = TILE * 2, !.y = TILE * 12, !.vx = 0, !.vy = 0,
            !.onGround = FALSE, !.facing = -p.facing]

reset(p) ==
  [p EXCEPT !.x = TILE * 2, !.y = TILE * 12, !.vx = 0, !.vy = 0,
            !.onGround = FALSE, !.facing = 1]

\* the object literal of game.js 16-25; onGroundLast is not yet a property
\* (undefined, read as false)
playerInit ==
  [x |-> TILE * 2, y |-> TILE * 12, vx |-> 0, vy |-> 0,
   onGround |-> FALSE, facing |-> 1, onGroundLast |-> FALSE]

\* horizontal block of rectVsTilesMove
HorizontalHit(o, dx) ==
  LET nx == o.x + dx
      ahead == IF Sign(dx) > 0 THEN nx + PLAYER_W ELSE nx
      xTile == ahead \div TILE
      yTop == o.y \div TILE
      yBot == (o.y + PLAYER_H - PX) \div TILE
  IN  dx # 0 /\ \E ty \in yTop..yBot : isSolidTile(xTile, ty)

\* a horizontal block that moves the body whatever is ahead
MoveHorizontalThrough(o, dx) ==
  [o EXCEPT !.x = o.x + dx]

MoveHorizontal(o, dx) ==
  LET nx == o.x + dx
      ahead == IF Sign(dx) > 0 THEN nx + PLAYER_W ELSE nx
      xTile == ahead \div TILE
  IN  IF dx = 0 THEN o
      ELSE IF HorizontalHit(o, dx)
      THEN [o EXCEPT !.x = IF Sign(dx) > 0 THEN xTile * TILE - PLAYER_W - EPS
                                           ELSE (xTile + 1) * TILE + EPS,
                     !.vx = 0]
      ELSE [o EXCEPT !.x = nx]

\* vertical block of rectVsTilesMove
VerticalHit(o, dy) ==
  LET ny == o.y + dy
      ahead == IF Sign(dy) > 0 THEN ny + PLAYER_H ELSE ny
      yTile == ahead \div TILE
      xLeft == o.x \div TILE
      xRight == (o.x + PLAYER_W - PX) \div TILE
  IN  dy # 0 /\ \E tx \in xLeft..xRight : isSolidTile(tx, yTile)

MoveVertical(o, dy) ==
  LET ny == o.y + dy
      ahead == IF Sign(dy) > 0 THEN ny + PLAYER_H ELSE ny
      yTile == ahead \div TILE
  IN  IF dy = 0 THEN o
      ELSE IF VerticalHit(o, dy)
      THEN [o EXCEPT !.y = IF Sign(dy) > 0 THEN yTile * TILE - PLAYER_H - EPS
                                           ELSE (yTile + 1) * TILE + EPS,
                     !.vy = 0,
                     !.onGround = IF Sign(dy) > 0 THEN TRUE ELSE @]
      ELSE [o EXCEPT !.y = ny]

rectVsTilesMove(o, dx, dy) == MoveVertical(MoveHorizontal(o, dx), dy)

(***************************************************************************)
(* Strings are sequences of one-character strings, so that toLowerCase is  *)
(* computed and the case-insensitive match can fail.                       *)
(***************************************************************************)
UPPER == <<"A","B","C","D","E","F","G","H","I","J","K","L","M",
           "N","O","P","Q","R","S","T","U","V","W","X","Y","Z">>
LOWER == <<"a","b","c","d","e","f","g","h","i","j","k","l","m",
           "n","o","p","q","r","s","t","u","v","w","x","y","z">>

toLowerCase(s) ==
  [i \in DOMAIN s |->
     IF \E k \in DOMAIN UPPER : UPPER[k] = s[i]
     THEN LOWER[CHOOSE k \in DOMAIN UPPER : UPPER[k] = s[i]]
     ELSE s[i]]

IDLE == <<"i","d","l","e">>
LEFT == <<"l","e","f","t">>
RIGHT == <<"r","i","g","h","t">>
JUMP == <<"j","u","m","p">>
LEFT_JUMP == LEFT \o <<"_">> \o JUMP
RIGHT_JUMP == RIGHT \o <<"_">> \o JUMP

\* the set ACTIONS of server.js 19 (ACTIONS is a reserved word of TLA+)
AllowedActions == {IDLE, LEFT, RIGHT, JUMP, LEFT_JUMP, RIGHT_JUMP}

(***************************************************************************)
(* Perception (snapshotState) and its JSON form on the wire.               *)
(***************************************************************************)
ROWS == 5
COLS == 9

\* a window whose row 0 is the row under the feet
nearGridBelow(p) ==
  LET txFeet == (p.x + PLAYER_W \div 2) \div TILE
      tyFeet == (p.y + PLAYER_H + PX) \div TILE
  IN  [r \in 1..ROWS |-> [c \in 1..COLS |->
         IF isSolidTile(txFeet + (c - 1), tyFeet - (r - 1)) THEN 1 ELSE 0]]

\* a window centred on the body instead of starting at its column
nearGridCentred(p) ==
  LET txFeet == (p.x + PLAYER_W \div 2) \div TILE
      tyFeet == (p.y + PLAYER_H) \div TILE
  IN  [r \in 1..ROWS |-> [c \in 1..COLS |->
         IF isSolidTile(txFeet + (c - 1) - 4, tyFeet - (r - 1)) THEN 1 ELSE 0]]

nearGridOf(p) ==
  LET txFeet == (p.x + PLAYER_W \div 2) \div TILE
      tyFeet == (p.y + PLAYER_H) \div TILE
  IN  [r \in 1..ROWS |-> [c \in 1..COLS |->
         IF isSolidTile(txFeet + (c - 1), tyFeet - (r - 1)) THEN 1 ELSE 0]]

snapshotState(p) ==
  [player |-> [x |-> MathRound(p.x, PX), y |-> MathRound(p.y, PX),
               vx |-> MathRound(p.vx, VS), vy |-> MathRound(p.vy, VS),
               onGround |-> p.onGround],
   nearGrid |-> nearGridOf(p),
   goal |-> [x |-> GOAL_X \div PX]]

(***************************************************************************)
(* A JSON value of a request, as far as the server looks at it.  A typed   *)
(* value is [t |-> typeof, v |-> the boolean, or the truthiness of a value *)
(* of another type].  A row of nearGrid is [isArray, cells]; cells are     *)
(* numbers.                                                                *)
(***************************************************************************)
Typed(t, v) == [t |-> t, v |-> v]
Row(isArray, cells) == [isArray |-> isArray, cells |-> cells]

StateValue(kind, onGround, gridIsArray, rows) ==
  [kind |-> kind, onGround |-> onGround, gridIsArray |-> gridIsArray, rows |-> rows]

\* JSON.stringify({ state }) as read back by express.json()
wireState(snap) ==
  StateValue("object", Typed("boolean", snap.player.onGround), TRUE,
             [r \in 1..ROWS |-> Row(TRUE, snap.nearGrid[r])])

(***************************************************************************)
(* server.js                                                               *)
(***************************************************************************)
\* a validateState whose row loop stops one row early
validateStateFourRows(state) ==
  IF state.kind # "object" THEN "Missing state"
  ELSE IF state.onGround.t # "boolean" THEN "player.onGround must be boolean"
  ELSE IF ~state.gridIsArray THEN "nearGrid must be an array"
  ELSE IF Len(state.rows) < 5 THEN "nearGrid needs >= 5 rows"
  ELSE IF \E r \in 1..4 : ~state.rows[r].isArray \/ Len(state.rows[r].cells) < 9
       THEN "nearGrid row needs >= 9 cols"
  ELSE ""

\* validateState: "" when the state passes, else the message of the Error
validateState(state) ==
  IF state.kind # "object" THEN "Missing state"
  ELSE IF state.onGround.t # "boolean" THEN "player.onGround must be boolean"
  ELSE IF ~state.gridIsArray THEN "nearGrid must be an array"
  ELSE IF Len(state.rows) < 5 THEN "nearGrid needs >= 5 rows"
  ELSE IF \E r \in 1..5 : ~state.rows[r].isArray \/ Len(state.rows[r].cells) < 9
       THEN "nearGrid row needs >= 9 cols"
  ELSE ""

\* g[r]?.[c] with 0-based r, c; -1 stands for undefined
Cell(state, r, c) ==
  IF state.kind = "object" /\ state.gridIsArray
     /\ r + 1 \in DOMAIN state.rows
     /\ state.rows[r + 1].isArray
     /\ c + 1 \in DOMAIN state.rows[r + 1].cells
  THEN state.rows[r + 1].cells[c + 1]
  ELSE -1

\* a heuristic that reads truthiness where the code compares with 1 and 0
heuristicLoose(state) ==
  LET onGround == state.kind = "object" /\ state.onGround.v
      obstacleAhead == Cell(state, 0, 1) > 0 \/ Cell(state, 0, 2) > 0
      gapHere == Cell(state, 0, 0) <= 0
  IN  IF onGround /\ (obstacleAhead \/ gapHere) THEN RIGHT_JUMP ELSE RIGHT

heuristic(state) ==
  LET onGround == state.kind = "object" /\ state.onGround.v
      obstacleAhead == Cell(state, 0, 1) = 1 \/ Cell(state, 0, 2) = 1
      gapHere == Cell(state, 0, 0) = 0
  IN  IF onGround /\ (obstacleAhead \/ gapHere) THEN RIGHT_JUMP ELSE RIGHT

(***************************************************************************)
(* The remote completion.  An outcome is                                   *)
(*   kind "throws"  : create() rejects (API or network error)              *)
(*   kind "timeout" : the 2500 ms fuse aborts the call, create() rejects   *)
(*   kind "content" : create() resolves; content is message.content        *)
(* A content is [isString, fenced, form, action]: form is the JSON text    *)
(* inside ("malformed", "null", "array", "object") and action the value of *)
(* its "action" member, [t, s, n] with t in undefined / string / number.   *)
(***************************************************************************)
ActionValue(t, s, n) == [t |-> t, s |-> s, n |-> n]
Content(isString, fenced, form, action) ==
  [isString |-> isString, fenced |-> fenced, form |-> form, action |-> action]
Outcome(kind, content) == [kind |-> kind, content |-> content]

NoAction == ActionValue("undefined", <<>>, 0)
EmptyObject == Content(TRUE, FALSE, "object", NoAction)

stripFences(s) ==
  IF ~s.isString THEN EmptyObject ELSE [s EXCEPT !.fenced = FALSE]

\* JSON.parse throws on a text that is not JSON
ParseThrows(text) == text.fenced \/ text.form = "malformed"

\* String(parsed.action || '')
ActionString(a) ==
  IF a.t = "string" THEN a.s
  ELSE IF a.t = "number" /\ a.n # 0 THEN <<"7">>
  ELSE <<>>

\* decideAction: [action, viaHeuristic]
Decided(action, viaHeuristic) == [action |-> action, viaHeuristic |-> viaHeuristic]

\* a decideAction that matches the token as it came, without toLowerCase
decideActionCaseSensitive(state, configured, outcome) ==
  IF ~configured THEN Decided(heuristic(state), TRUE)
  ELSE IF outcome.kind # "content" THEN Decided(heuristic(state), TRUE)
  ELSE LET jsonText == stripFences(outcome.content)
       IN  IF ParseThrows(jsonText) \/ jsonText.form = "null"
           THEN Decided(heuristic(state), TRUE)
           ELSE LET a == IF jsonText.form = "object"
                         THEN ActionString(jsonText.action)
                         ELSE <<>>
                IN  IF a \in AllowedActions THEN Decided(a, FALSE)
                    ELSE Decided(heuristic(state), TRUE)

decideAction(state, configured, outcome) ==
  IF ~configured THEN Decided(heuristic(state), TRUE)
  ELSE IF outcome.kind # "content" THEN Decided(heuristic(state), TRUE)
  ELSE LET jsonText == stripFences(outcome.content)
       IN  IF ParseThrows(jsonText) \/ jsonText.form = "null"
           THEN Decided(heuristic(state), TRUE)
           ELSE LET a == toLowerCase(IF jsonText.form = "object"
                                     THEN ActionString(jsonText.action)
                                     ELSE <<>>)
                IN  IF a \in AllowedActions THEN Decided(a, FALSE)
                    ELSE Decided(heuristic(state), TRUE)

\* the reply of app.post('/agent/act')
Reply(status, action, error, message, decided, viaHeuristic) ==
  [status |-> status, action |-> action, error |-> error, message |-> message,
   decided |-> decided, viaHeuristic |-> viaHeuristic]

NoReply == Reply(0, <<>>, "", "", FALSE, FALSE)

UndefinedState == StateValue("undefined", Typed("undefined", FALSE), FALSE, <<>>)
Body(hasBody, state) == [hasBody |-> hasBody, state |-> state]
NoRequest == [body |-> Body(FALSE, UndefinedState),
              outcome |-> Outcome("throws", EmptyObject)]

\* body is [hasBody, state]
agentAct(body, configured, outcome) ==
  LET state == IF body.hasBody THEN body.state ELSE UndefinedState
      problem == validateState(state)
  IN  IF problem # ""
      THEN Reply(400, <<>>, "agent_error", problem, FALSE, FALSE)
      ELSE LET d == decideAction(state, configured, outcome)
           IN  Reply(200, d.action, "", "", TRUE, d.viaHeuristic)

(***************************************************************************)
(* game.js: input, decisions and the tick.                                 *)
(***************************************************************************)
\* the key codes the game reads
KeyCodes == {"ArrowLeft", "ArrowRight", "Space", "KeyZ"}
\* the key codes the keydown handler tells apart
AllCodes == KeyCodes \cup {"KeyA", "KeyR"}

\* an applyAction that presses Space without looking at player.onGround
applyActionAirborne(k, p, action) ==
  LET cleared == [k EXCEPT !["ArrowLeft"] = FALSE, !["ArrowRight"] = FALSE,
                           !["Space"] = FALSE]
  IN  IF action = LEFT THEN [cleared EXCEPT !["ArrowLeft"] = TRUE]
      ELSE IF action = RIGHT THEN [cleared EXCEPT !["ArrowRight"] = TRUE]
      ELSE IF action = JUMP THEN [cleared EXCEPT !["Space"] = TRUE]
      ELSE IF action = LEFT_JUMP
           THEN [cleared EXCEPT !["ArrowLeft"] = TRUE, !["Space"] = TRUE]
      ELSE IF action = RIGHT_JUMP
           THEN [cleared EXCEPT !["ArrowRight"] = TRUE, !["Space"] = TRUE]
      ELSE cleared

applyAction(k, p, action) ==
  LET cleared == [k EXCEPT !["ArrowLeft"] = FALSE, !["ArrowRight"] = FALSE,
                           !["Space"] = FALSE]
  IN  IF action = LEFT THEN [cleared EXCEPT !["ArrowLeft"] = TRUE]
      ELSE IF action = RIGHT THEN [cleared EXCEPT !["ArrowRight"] = TRUE]
      ELSE IF action = JUMP THEN [cleared EXCEPT !["Space"] = p.onGround]
      ELSE IF action = LEFT_JUMP
           THEN [cleared EXCEPT !["ArrowLeft"] = TRUE, !["Space"] = p.onGround]
      ELSE IF action = RIGHT_JUMP
           THEN [cleared EXCEPT !["ArrowRight"] = TRUE, !["Space"] = p.onGround]
      ELSE cleared

\* the condition under which update() calls requestAction at time t
WantsAction(t) == aiEnabled /\ t >= actionUntil

\* requestAction up to the await: the snapshot is taken and the call is on its way
Request(t) == [state |-> snapshotState(player), at |-> t]

\* update(): input and horizontal physics (game.js 141-154)
ax(k) == (IF k["ArrowLeft"] THEN -MOVE_ACCEL ELSE 0)
         + (IF k["ArrowRight"] THEN MOVE_ACCEL ELSE 0)

\* an update() without the friction line
AccelerateNoFriction(p, k) ==
  LET v == p.vx + (ax(k) * VS) \div 60
      clamped == Max(Min(v, MAX_SPEED_X * VS), -(MAX_SPEED_X * VS))
  IN  [p EXCEPT !.vx = clamped,
                !.facing = IF k["ArrowRight"] THEN 1
                           ELSE IF k["ArrowLeft"] THEN -1 ELSE @]

Accelerate(p, k) ==
  LET v == p.vx + (ax(k) * VS) \div 60
      clamped == Max(Min(v, MAX_SPEED_X * VS), -(MAX_SPEED_X * VS))
  IN  [p EXCEPT !.vx = RoundDiv(clamped * FRICTION, 100),
                !.facing = IF k["ArrowRight"] THEN 1
                           ELSE IF k["ArrowLeft"] THEN -1 ELSE @]

\* update(): the jump test (game.js 160-164)
JumpInput(k) == k["Space"] \/ k["KeyZ"]
Impulse(p, k) == JumpInput(k) /\ p.onGroundLast

\* an update() that does not clear onGround before the moves
GravitateKeepingGround(p, k) ==
  LET q == [p EXCEPT !.vy = @ + (GRAVITY * VS) \div 60]
  IN  IF Impulse(p, k) THEN [q EXCEPT !.vy = JUMP_VY * VS] ELSE q

\* update(): gravity and jump (game.js 156-164)
Gravitate(p, k) ==
  LET q == [p EXCEPT !.onGround = FALSE, !.vy = @ + (GRAVITY * VS) \div 60]
  IN  IF Impulse(p, k) THEN [q EXCEPT !.vy = JUMP_VY * VS] ELSE q

\* the win test (game.js 177)
AtGoal(p) == p.x > GOAL_X - TILE /\ p.y < (LEVEL_H - 3) * TILE

\* update(): win reset and ground tracking (game.js 176-182)
Finish(p) ==
  LET r == IF AtGoal(p) THEN reset(p) ELSE p
  IN  [r EXCEPT !.onGroundLast = r.onGround]

\* the time of the frame that follows the frames run so far
NextFrame == (ticks + 1) * FRAME

\* what the last step did (history, for the properties; no code reads it):
\* g is the body before the moves, h after the horizontal call of
\* rectVsTilesMove, m after the vertical call; (px, py) is where the body
\* was when the tick began, appliedToken the last action applyAction was
\* given and appliedGrounded player.onGround at that moment
ProbeOfTick(t, g, h, m) ==
  [ev |-> "tick",
   requested |-> WantsAction(t),
   reqGap |-> IF WantsAction(t) /\ probe.lastRequestAt >= 0
              THEN t - probe.lastRequestAt ELSE -1,
   lastRequestAt |-> IF WantsAction(t) THEN t ELSE probe.lastRequestAt,
   jumpInput |-> JumpInput(keys),
   jumpInputPrev |-> probe.jumpInput,
   groundedLast |-> player.onGroundLast,
   impulse |-> Impulse(player, keys),
   hdx |-> g.vx,
   hhit |-> HorizontalHit(g, g.vx),
   hx |-> h.x, hy |-> h.y, hvx |-> h.vx,
   gx |-> m.x, gy |-> m.y, gGround |-> m.onGround,
   resetFired |-> AtGoal(m),
   heldLeft |-> probe.heldLeft,
   px |-> player.x, py |-> player.y,
   vdy |-> h.vy,
   vhit |-> VerticalHit(h, h.vy),
   appliedToken |-> probe.appliedToken,
   appliedGrounded |-> probe.appliedGrounded]

ProbeInit ==
  [ev |-> "init", requested |-> FALSE, reqGap |-> -1, lastRequestAt |-> -1,
   jumpInput |-> FALSE, jumpInputPrev |-> FALSE, groundedLast |-> FALSE,
   impulse |-> FALSE, hdx |-> 0, hhit |-> FALSE,
   hx |-> playerInit.x, hy |-> playerInit.y, hvx |-> 0,
   gx |-> playerInit.x, gy |-> playerInit.y, gGround |-> FALSE,
   resetFired |-> FALSE, heldLeft |-> 0,
   px |-> playerInit.x, py |-> playerInit.y, vdy |-> 0, vhit |-> FALSE,
   appliedToken |-> <<>>, appliedGrounded |-> FALSE]

\* one frame: gameLoop calls update(1/60) at time NextFrame
Tick(limit) ==
  /\ ticks < limit
  /\ \E t \in {NextFrame} :
     \E g \in {Gravitate(Accelerate(player, keys), keys)} :
     \E h \in {rectVsTilesMove(g, g.vx, 0)} :
     \E m \in {rectVsTilesMove(h, 0, h.vy)} :
       /\ pending' = IF WantsAction(t) THEN Append(pending, Request(t)) ELSE pending
       /\ player' = Finish(m)
       /\ now' = t
       /\ probe' = ProbeOfTick(t, g, h, m)
  /\ ticks' = ticks + 1
  /\ UNCHANGED <<keys, aiEnabled, lastAction, actionUntil, presses, latency,
                 serverVars, aloneVars>>

Without(q, i) == [j \in 1..(Len(q) - 1) |-> IF j < i THEN q[j] ELSE q[j + 1]]

\* the call pending[i] resolves at time t, between two frames: the .then
\* callback of update() runs
Resolve(i, outcome, t) ==
  /\ i \in DOMAIN pending
  /\ now <= t /\ t < NextFrame
  /\ \E res \in {agentAct(Body(TRUE, wireState(pending[i].state)), openai, outcome)} :
     \E a \in {IF res.action = <<>> THEN RIGHT ELSE res.action} :
       IF res.status = 200
       THEN /\ keys' = applyAction(keys, player, a)
            /\ lastAction' = a
            /\ actionUntil' = t + HOLD
            /\ probe' = [probe EXCEPT !.ev = "resolve",
                                       !.heldLeft = actionUntil - t,
                                       !.appliedToken = a,
                                       !.appliedGrounded = player.onGround]
       ELSE /\ UNCHANGED <<keys, lastAction, actionUntil>>
            /\ probe' = [probe EXCEPT !.ev = "fail"]
  /\ now' = t
  /\ pending' = Without(pending, i)
  /\ UNCHANGED <<player, aiEnabled, ticks, presses, latency, serverVars, aloneVars>>

\* a catch handler that lets go of the keys
FailReleasing(i, t) ==
  /\ i \in DOMAIN pending
  /\ now <= t /\ t < NextFrame
  /\ now' = t
  /\ pending' = Without(pending, i)
  /\ keys' = applyAction(keys, player, IDLE)
  /\ probe' = [probe EXCEPT !.ev = "fail"]
  /\ UNCHANGED <<player, aiEnabled, lastAction, actionUntil, ticks,
                 presses, latency, serverVars, aloneVars>>

\* the call pending[i] fails (fetch rejects, or the answer is not ok):
\* the .catch callback of update() runs
Fail(i, t) ==
  /\ i \in DOMAIN pending
  /\ now <= t /\ t < NextFrame
  /\ now' = t
  /\ pending' = Without(pending, i)
  /\ probe' = [probe EXCEPT !.ev = "fail"]
  /\ UNCHANGED <<player, keys, aiEnabled, lastAction, actionUntil, ticks,
                 presses, latency, serverVars, aloneVars>>

\* keydown with e.repeat false
KeyDown(code) ==
  /\ IF code = "KeyA"
     THEN aiEnabled' = ~aiEnabled /\ UNCHANGED <<player, keys>>
     ELSE IF code = "KeyR"
     THEN player' = reset(player) /\ UNCHANGED <<aiEnabled, keys>>
     ELSE keys' = [keys EXCEPT ![code] = TRUE] /\ UNCHANGED <<aiEnabled, player>>
  /\ probe' = [probe EXCEPT !.ev = "keydown"]
  /\ UNCHANGED <<lastAction, actionUntil, now, ticks, pending, latency, serverVars, aloneVars>>

KeyUp(code) ==
  /\ keys' = [keys EXCEPT ![code] = FALSE]
  /\ probe' = [probe EXCEPT !.ev = "keyup"]
  /\ UNCHANGED <<player, aiEnabled, lastAction, actionUntil, now, ticks, pending,
                 latency, serverVars, aloneVars>>

(***************************************************************************)
(* What the remote completion may be.                                      *)
(***************************************************************************)
ActionStrings ==
  AllowedActions
  \cup {<<"R","I","G","H","T">>, <<"R","i","g","h","t","_","J","u","m","p">>,
        <<"J","U","M","P">>, <<"I","d","l","e">>, <<"r","u","n">>, <<>>}

ActionValues ==
  {ActionValue("string", s, 0) : s \in ActionStrings}
  \cup {NoAction, ActionValue("number", <<>>, 0), ActionValue("number", <<>>, 7)}

Contents ==
  {Content(TRUE, f, "object", a) : f \in BOOLEAN, a \in ActionValues}
  \cup {Content(TRUE, f, form, NoAction) :
          f \in BOOLEAN, form \in {"malformed", "null", "array"}}
  \cup {Content(FALSE, FALSE, "object", NoAction)}

RemoteOutcomes ==
  {Outcome(k, EmptyObject) : k \in {"throws", "timeout"}}
  \cup {Outcome("content", c) : c \in Contents}

\* one completion for each decision a configured server can take
PolicyOutcomes ==
  {Outcome("content", Content(TRUE, FALSE, "object", ActionValue("string", s, 0))) :
     s \in AllowedActions}
  \cup {Outcome("throws", EmptyObject)}

(***************************************************************************)
(* The game with every input: keyboard, decisions of a configured server,  *)
(* failures; for MaxTicks frames and MaxPresses keyboard events.           *)
(***************************************************************************)
ClientInit ==
  /\ player = playerInit
  /\ keys = [c \in KeyCodes |-> FALSE]
  /\ aiEnabled = TRUE
  /\ lastAction = IDLE
  /\ actionUntil = 0
  /\ now = 0
  /\ ticks = 0
  /\ pending = <<>>
  /\ presses = 0
  /\ probe = ProbeInit

NoCall == [fn |-> "none"]

\* no function is applied alone, and the remote service is not asked
Alone ==
  /\ policy = Outcome("throws", EmptyObject)
  /\ call = NoCall

\* the server process before its first request
ServerIdle ==
  /\ inbox = NoRequest
  /\ reply = NoReply
  /\ served = 0
  /\ rejected = 0

Init ==
  /\ ClientInit
  /\ latency = 0
  /\ openai = TRUE
  /\ ServerIdle
  /\ Alone

Frame == Tick(MaxTicks)
Press ==
  /\ presses < MaxPresses
  /\ presses' = presses + 1
  /\ \E code \in AllCodes : KeyDown(code)
Release ==
  /\ presses < MaxPresses
  /\ presses' = presses + 1
  /\ \E code \in KeyCodes : KeyUp(code)
Answer == \E i \in DOMAIN pending, outcome \in PolicyOutcomes : Resolve(i, outcome, now)
Failure == \E i \in DOMAIN pending : Fail(i, now)

Next == Frame \/ Press \/ Release \/ Answer \/ Failure

Spec == Init /\ [][Next]_vars

(***************************************************************************)
(* The game played on the jump keys and the R key while the server cannot  *)
(* be reached: every call update() issues is refused before the next frame.*)
(***************************************************************************)
JumpCodes == {"Space", "KeyZ"}

InitManual == Init

FrameManual == pending = <<>> /\ Tick(ManualTicks)
Refused == Fail(1, now)
PressJump == \E code \in JumpCodes :
               ~keys[code] /\ KeyDown(code) /\ UNCHANGED presses
ReleaseJump == \E code \in JumpCodes :
                 keys[code] /\ KeyUp(code) /\ UNCHANGED presses

PressReset == KeyDown("KeyR") /\ UNCHANGED presses

NextManual == FrameManual \/ Refused \/ PressJump \/ ReleaseJump \/ PressReset

SpecManual == InitManual /\ [][NextManual]_vars

(***************************************************************************)
(* The game left to the fallback policy: the server has no remote service  *)
(* configured, so every decision is heuristic(snapshot at request time);   *)
(* every call takes the same time, latency; no keyboard.  The frames come  *)
(* one after the other (requestAnimationFrame), and a call that is due     *)
(* resolves before the next frame.                                         *)
(***************************************************************************)
Latencies == {5 * MS, 100 * MS}

InitE2E ==
  /\ ClientInit
  /\ latency \in Latencies
  /\ openai = FALSE
  /\ ServerIdle
  /\ Alone

Due == pending # <<>> /\ pending[1].at + latency < NextFrame

FrameE2E == ~Due /\ Tick(E2ETicks)
AnswerDue == Due /\ Resolve(1, Outcome("throws", EmptyObject), pending[1].at + latency)

NextE2E == FrameE2E \/ AnswerDue

SpecE2E == InitE2E /\ [][NextE2E]_vars /\ WF_vars(NextE2E)

(***************************************************************************)
(* The game left to a remote service that always answers the same: one of  *)
(* the six tokens, or nothing usable (then the server falls back on the    *)
(* heuristic).  Every call takes the same time; no keyboard.               *)
(***************************************************************************)
PolicyTicks == 1450

InitPolicy ==
  /\ ClientInit
  /\ latency \in Latencies
  /\ openai = TRUE
  /\ ServerIdle
  /\ policy \in PolicyOutcomes
  /\ call = NoCall

FramePolicy == ~Due /\ Tick(PolicyTicks)
AnswerPolicy == Due /\ Resolve(1, policy, pending[1].at + latency)

NextPolicy == FramePolicy \/ AnswerPolicy

SpecPolicy == InitPolicy /\ [][NextPolicy]_vars /\ WF_vars(NextPolicy)

(***************************************************************************)
(* The server alone: requests of any shape, answered one at a time.        *)
(***************************************************************************)
OnGroundValues ==
  {Typed("boolean", TRUE), Typed("boolean", FALSE), Typed("undefined", FALSE),
   Typed("string", TRUE), Typed("number", FALSE)}

\* the first three cells of row 0, which the fallback reads
Feet == {<<0, 0, 0>>, <<1, 0, 0>>, <<1, 1, 0>>, <<1, 0, 1>>, <<0, 1, 1>>,
         <<1, 2, 2>>, <<2, 0, 0>>, <<1, 1, 1>>}

GoodRow(feet, cols) == Row(TRUE, [c \in 1..cols |-> IF c <= 3 THEN feet[c] ELSE 0])

\* a grid of n rows of cols columns whose row bad (if any) is not an array
\* (short = FALSE) or has 8 columns (short = TRUE)
Grid(n, cols, feet, bad, short) ==
  [r \in 1..n |->
     IF r = bad
     THEN IF short THEN GoodRow(feet, 8) ELSE Row(FALSE, <<>>)
     ELSE GoodRow(IF r = 1 THEN feet ELSE <<0, 0, 0>>, cols)]

Grids ==
  {Grid(n, cols, feet, 0, FALSE) : n \in {0, 4, 5, 6}, cols \in {9, 10}, feet \in Feet}
  \cup {Grid(5, 9, feet, bad, short) : feet \in Feet, bad \in 1..5, short \in BOOLEAN}
  \cup {Grid(6, 9, feet, 6, short) : feet \in Feet, short \in BOOLEAN}

StateValues ==
  {StateValue(k, Typed("undefined", FALSE), FALSE, <<>>) :
     k \in {"undefined", "null", "number"}}
  \cup {StateValue("object", g, FALSE, <<>>) : g \in OnGroundValues}
  \cup {StateValue("object", g, TRUE, rows) : g \in OnGroundValues, rows \in Grids}

Bodies == {Body(FALSE, UndefinedState)} \cup {Body(TRUE, st) : st \in StateValues}

InitServer ==
  /\ ClientInit
  /\ latency = 0
  /\ openai \in BOOLEAN
  /\ ServerIdle
  /\ Alone

\* app.post('/agent/act'): one request, from its arrival to res.json
Post(body, outcome) ==
  /\ inbox' = [body |-> body, outcome |-> outcome]
  /\ reply' = agentAct(body, openai, outcome)
  /\ UNCHANGED <<openai, served, rejected, clientVars, aloneVars>>

\* the reply leaves the server
Send ==
  /\ reply # NoReply
  /\ served' = served + 1
  /\ rejected' = IF reply.status = 400 THEN rejected + 1 ELSE rejected
  /\ inbox' = NoRequest
  /\ reply' = NoReply
  /\ UNCHANGED <<openai, clientVars, aloneVars>>

Receive ==
  /\ reply = NoReply
  /\ served < MaxRequests
  /\ \E body \in Bodies, outcome \in RemoteOutcomes : Post(body, outcome)

NextServer == Receive \/ Send

SpecServer == InitServer /\ [][NextServer]_vars

(***************************************************************************)
(* isSolidTile alone: one lookup of a tile coordinate, inside the level    *)
(* or up to TileMargin tiles outside it.                                   *)
(***************************************************************************)
TileMargin == 2

TileCalls ==
  {[fn |-> "isSolidTile", tx |-> tx, ty |-> ty, done |-> FALSE,
    out |-> FALSE, index |-> <<>>] :
     tx \in (-TileMargin)..(LEVEL_W - 1 + TileMargin),
     ty \in (-TileMargin)..(LEVEL_H - 1 + TileMargin)}

InitTiles ==
  /\ ClientInit
  /\ latency = 0
  /\ openai = TRUE
  /\ ServerIdle
  /\ policy = Outcome("throws", EmptyObject)
  /\ call \in TileCalls

LookUp ==
  /\ call.fn = "isSolidTile" /\ ~call.done
  /\ call' = [call EXCEPT !.done = TRUE,
                          !.out = isSolidTile(call.tx, call.ty),
                          !.index = worldIndex(call.tx, call.ty)]
  /\ UNCHANGED <<clientVars, serverVars, policy>>

NextTiles == LookUp

SpecTiles == InitTiles /\ [][NextTiles]_vars

(***************************************************************************)
(* snapshotState and reset alone, on bodies placed anywhere in the level:  *)
(* at the columns and rows of BodyCols and BodyRows, at the offsets at     *)
(* which the foot column and the foot row change, in three motions.        *)
(***************************************************************************)
MaxResets == 2

BodyCols == {0, 9, 47, 59, 111, 112, 116, 119}
BodyRows == {0, 2, 11, 12, 15, 16, 17, 18}
ColOffsets == {0, 19 * PX - 1, 19 * PX, TILE - EPS}
RowOffsets == {0, 2 * PX - EPS, 2 * PX - 1, 2 * PX}

Motions ==
  {[vx |-> 0, vy |-> 0, onGround |-> TRUE, facing |-> 1, onGroundLast |-> TRUE],
   [vx |-> -16997, vy |-> 53000, onGround |-> FALSE, facing |-> -1,
    onGroundLast |-> FALSE],
   [vx |-> 123, vy |-> JUMP_VY * VS, onGround |-> FALSE, facing |-> 1,
    onGroundLast |-> TRUE]}

PlacedBodies ==
  {[x |-> c * TILE + co, y |-> r * TILE + ro, vx |-> m.vx, vy |-> m.vy,
    onGround |-> m.onGround, facing |-> m.facing, onGroundLast |-> m.onGroundLast] :
     c \in BodyCols, co \in ColOffsets, r \in BodyRows, ro \in RowOffsets,
     m \in Motions}

InitBody ==
  /\ player \in PlacedBodies
  /\ keys = [c \in KeyCodes |-> FALSE]
  /\ aiEnabled = TRUE
  /\ lastAction = IDLE
  /\ actionUntil = 0
  /\ now = 0
  /\ ticks = 0
  /\ pending = <<>>
  /\ presses = 0
  /\ probe = ProbeInit
  /\ latency = 0
  /\ openai = TRUE
  /\ ServerIdle
  /\ Alone

\* snapshotState() is called
TakeSnapshot ==
  /\ call = NoCall
  /\ call' = [fn |-> "snapshotState", arg |-> player, out |-> snapshotState(player)]
  /\ UNCHANGED <<clientVars, serverVars, policy>>

\* reset() is called, and called again
CallReset ==
  /\ call = NoCall \/ (call.fn = "reset" /\ call.n < MaxResets)
  /\ player' = reset(player)
  /\ call' = [fn |-> "reset", n |-> IF call = NoCall THEN 1 ELSE call.n + 1,
              arg |-> IF call = NoCall THEN player ELSE call.arg,
              before |-> player]
  /\ UNCHANGED <<keys, aiEnabled, lastAction, actionUntil, now, ticks, pending,
                 presses, latency, probe, serverVars, policy>>

NextBody == TakeSnapshot \/ CallReset

SpecBody == InitBody /\ [][NextBody]_vars

(***************************************************************************)
(* Properties of the decision machinery.                                   *)
(***************************************************************************)
\* C2: any two consecutive decision requests issued by update() are at least
\* one hold interval (120 ms) apart.
C2_RequestsOneHoldApart ==
  probe.requested => (probe.reqGap = -1 \/ probe.reqGap >= HOLD)

\* a call has just failed, or a frame has just run with calls pending
C8_CallOutstanding ==
  probe.ev = "fail" \/ (probe.ev = "tick" /\ pending # <<>>)

C8_IntentUnchanged ==
  keys' = keys /\ lastAction' = lastAction /\ actionUntil' = actionUntil

C8_FrameApplies ==
  /\ ticks' = ticks + 1
  /\ keys["ArrowRight"] /\ ~keys["ArrowLeft"]
       => player'.facing = 1 /\ probe'.hdx > RoundDiv(player.vx * FRICTION, 100)
  /\ keys["ArrowLeft"] /\ ~keys["ArrowRight"]
       => player'.facing = -1 /\ probe'.hdx < RoundDiv(player.vx * FRICTION, 100)

\* C8: a step in which a call fails, and a frame that runs while calls are
\* pending, leave ArrowLeft, ArrowRight, Space, lastAction and actionUntil as
\* they were; the next frame is not held back by the failure or by the
\* pending calls (it is enabled whenever the horizon allows a frame) and
\* accelerates the body in the held direction: its horizontal step is beyond
\* the one it would coast.
C8_HeldIntentKept ==
  /\ [](C8_CallOutstanding /\ ticks < MaxTicks => ENABLED Frame)
  /\ [][(probe'.ev = "fail" => C8_IntentUnchanged)
        /\ (probe'.ev = "tick" => C8_IntentUnchanged /\ C8_FrameApplies)]_vars

\* C8 witness: a call has just failed while the intent "right" of an earlier
\* decision was held and had been applied by a frame
C8_Witness ==
  /\ probe.ev = "fail"
  /\ lastAction = RIGHT /\ keys["ArrowRight"]
  /\ presses = 0
  /\ player.vx > 0

\* C9: a decision result is applied only when the hold window of the result
\* applied before it is over.
C9_NoOverwriteInsideHold ==
  probe.ev = "resolve" => probe.heldLeft <= 0

(***************************************************************************)
(* Properties of the physics tick.                                         *)
(***************************************************************************)
\* C1: a tick applies the jump impulse exactly when the jump input is pressed
\* on this tick and was not pressed on the tick before (rising edge) and
\* onGroundLast is true; a held input applies none.
C1_JumpOnRisingEdge ==
  probe.ev = "tick" =>
    (probe.impulse <=>
       (probe.jumpInput /\ ~probe.jumpInputPrev /\ probe.groundedLast))

\* top of the flagpole as draw() paints it
FlagTop == (LEVEL_H - 11) * TILE

\* C4: a tick resets the level exactly when the body it moved is beyond
\* GOAL_X - TILE and below the top of the flagpole, a body standing on the
\* ground next to the goal pillar included.
C4_ResetBeyondGoal ==
  probe.ev = "tick" =>
    (probe.resetFired <=> (probe.gx > GOAL_X - TILE /\ probe.gy > FlagTop))

\* the box w x h at (x, y) reaches more than EPS into a solid tile on both axes
SolidOverlap(x, y) ==
  \E tx \in (x \div TILE)..((x + PLAYER_W) \div TILE),
     ty \in (y \div TILE)..((y + PLAYER_H) \div TILE) :
    /\ isSolidTile(tx, ty)
    /\ Min(x + PLAYER_W, (tx + 1) * TILE) - Max(x, tx * TILE) > EPS
    /\ Min(y + PLAYER_H, (ty + 1) * TILE) - Max(y, ty * TILE) > EPS

\* the leading edge of the box at (x, y), moved by dx, is EPS short of the
\* boundary of a solid tile beside it
LeadingEdgeAtTile(x, y, dx) ==
  LET edge == IF dx > 0 THEN x + PLAYER_W + EPS ELSE x - EPS
      tx == IF dx > 0 THEN edge \div TILE ELSE edge \div TILE - 1
  IN  /\ edge % TILE = 0
      /\ \E ty \in (y \div TILE)..((y + PLAYER_H - PX) \div TILE) : isSolidTile(tx, ty)

\* C5: when the horizontal pass finds a solid tile the leading edge ends EPS
\* short of the tile boundary with vx = 0, and after the horizontal pass of
\* any tick the box overlaps no solid tile by more than EPS.
C5_HorizontalPassKeepsOut ==
  probe.ev = "tick" =>
    /\ probe.hhit => (probe.hvx = 0 /\ LeadingEdgeAtTile(probe.hx, probe.hy, probe.hdx))
    /\ ~SolidOverlap(probe.hx, probe.hy)

\* the body reaches into row 18 between columns 48 and 51, where the ground
\* is missing
InGap(p) ==
  /\ p.y + PLAYER_H > (LEVEL_H - 2) * TILE
  /\ p.x + PLAYER_W > 48 * TILE
  /\ p.x < 52 * TILE

\* column of the centre of the body
Column(p) == (p.x + PLAYER_W \div 2) \div TILE

AtSpawn(p) ==
  p.x = 2 * TILE /\ p.y = 12 * TILE /\ p.vx = 0 /\ p.vy = 0

\* C3: from the spawn state, with every decision the fallback of the snapshot
\* taken at request time, the body reaches column 52 or beyond without ever
\* being in the gap of row 18, and a later tick meets the goal test and
\* leaves the body at the spawn position with zero velocity.
C3_CrossesGapAndWins ==
  /\ [] ~InGap(player)
  /\ <>(Column(player) >= 52)
  /\ <>(probe.ev = "tick" /\ probe.resetFired /\ AtSpawn(player))

(***************************************************************************)
(* Properties of the server.                                               *)
(***************************************************************************)
\* the characters s[i] and k[i] are the same letter in either case
SameLetter(a, b) ==
  a = b \/ \E j \in DOMAIN UPPER : {a, b} = {UPPER[j], LOWER[j]}

SameIgnoringCase(s, k) ==
  Len(s) = Len(k) /\ \A i \in 1..Len(k) : SameLetter(s[i], k[i])

\* the remote service answered with a JSON object whose action is a string
\* naming token k in some case
AnsweredToken(k) ==
  /\ openai
  /\ inbox.outcome.kind = "content"
  /\ inbox.outcome.content.isString
  /\ inbox.outcome.content.form = "object"
  /\ inbox.outcome.content.action.t = "string"
  /\ SameIgnoringCase(inbox.outcome.content.action.s, k)

\* the fallback of the claims, from the fields of the request
FeetCell(c) == inbox.body.state.rows[1].cells[c + 1]

FallbackJumps ==
  /\ inbox.body.state.onGround = Typed("boolean", TRUE)
  /\ (FeetCell(1) = 1 \/ FeetCell(2) = 1 \/ FeetCell(0) = 0)

FallbackToken == IF FallbackJumps THEN RIGHT_JUMP ELSE RIGHT

\* C6: for a validated state the decision is one of the six tokens: the token
\* the remote service named, in lower case, when it named one of the six in
\* any case, and the fallback of the state in every other outcome (not
\* configured, throws, times out, malformed JSON, no token, another token).
C6_DecisionIsTokenOrFallback ==
  reply.status = 200 =>
    /\ reply.action \in AllowedActions
    /\ \A k \in AllowedActions : AnsweredToken(k) => reply.action = k
    /\ (~\E k \in AllowedActions : AnsweredToken(k)) =>
         reply.action = heuristic(inbox.body.state) /\ reply.viaHeuristic

\* C6 witness: the remote service named a token in upper case and the server
\* answered it in lower case; the fallback of that state is another token
C6_Witness ==
  /\ reply.status = 200
  /\ inbox.outcome.content.action.s = <<"J","U","M","P">>
  /\ AnsweredToken(JUMP)
  /\ reply.action = JUMP

\* C7: the fallback answers right_jump exactly when onGround is true and
\* nearGrid[0][1] = 1 or nearGrid[0][2] = 1 or nearGrid[0][0] = 0, and right
\* otherwise; never a jump when onGround is false, never idle or leftward.
C7_FallbackRule ==
  (reply.status = 200 /\ reply.viaHeuristic) =>
    /\ reply.action = RIGHT_JUMP <=> FallbackJumps
    /\ reply.action # RIGHT_JUMP => reply.action = RIGHT
    /\ ~inbox.body.state.onGround.v => reply.action = RIGHT

\* C7 witness: a grounded state with a solid cell one ahead is answered
\* right_jump by the fallback
C7_Witness ==
  /\ reply.status = 200 /\ reply.viaHeuristic
  /\ inbox.body.state.onGround = Typed("boolean", TRUE)
  /\ FeetCell(1) = 1 /\ FeetCell(0) = 1
  /\ reply.action = RIGHT_JUMP

\* the request has no state object, or onGround is no boolean, or nearGrid is
\* no array, or has fewer than 5 rows, or one of its first 5 rows is no array
\* of at least 9 columns
Malformed(body) ==
  \/ ~body.hasBody
  \/ body.state.kind # "object"
  \/ body.state.onGround.t # "boolean"
  \/ ~body.state.gridIsArray
  \/ Len(body.state.rows) < 5
  \/ \E r \in 1..5 : ~body.state.rows[r].isArray \/ Len(body.state.rows[r].cells) < 9

\* C10: a malformed request is answered 400 with error agent_error, without
\* decideAction or heuristic being called; and after a rejection the server
\* takes the next request.
C10_RejectsMalformed ==
  /\ (reply # NoReply /\ Malformed(inbox.body)) =>
       /\ reply.status = 400 /\ reply.error = "agent_error"
       /\ ~reply.decided /\ ~reply.viaHeuristic
  /\ (reply = NoReply /\ rejected > 0 /\ served < MaxRequests) => ENABLED Receive

\* C10 witness: a request is answered 200 after an earlier one was rejected
C10_Witness ==
  /\ rejected > 0
  /\ reply.status = 200

(***************************************************************************)
(* Properties of reset and of the jump in manual play.                     *)
(***************************************************************************)
\* C15: after reset, called for the R key or by the goal test of a tick, the
\* body is the body created at level start: x = 2 * TILE, y = 12 * TILE,
\* vx = 0, vy = 0, onGround false, facing 1, and nothing else differs.
C15_ResetRestoresStart ==
  [][(KeyDown("KeyR") \/ (probe'.ev = "tick" /\ probe'.resetFired))
       => player' = playerInit]_vars

\* the bottom edge of the box at (x, y) is at most EPS above the top of a
\* solid tile under the box
RestsOnTile(x, y) ==
  LET ty == (y + PLAYER_H + EPS) \div TILE
  IN  /\ ty * TILE - (y + PLAYER_H) \in 0..EPS
      /\ \E tx \in (x \div TILE)..((x + PLAYER_W) \div TILE) : isSolidTile(tx, ty)

\* C20: on every tick that sets vy to JUMP_VY the body rests, when the tick
\* begins, on top of a solid tile; also on the first tick after the R key.
C20_NoJumpInMidAir ==
  (probe.ev = "tick" /\ probe.impulse) => RestsOnTile(probe.px, probe.py)

(***************************************************************************)
(* Properties of the body under a fixed policy.                            *)
(***************************************************************************)
\* C13: in every reachable state the box of the body lies inside the level
\* rectangle: 0 <= x, x + w <= LEVEL_W * TILE, 0 <= y, y + h <= LEVEL_H * TILE.
C13_InsideLevel ==
  /\ 0 <= player.x /\ player.x + PLAYER_W <= LEVEL_W * TILE
  /\ 0 <= player.y /\ player.y + PLAYER_H <= LEVEL_H * TILE

\* C13 witness: the body, driven left, has been stopped by the left edge of
\* the level
C13_Witness ==
  /\ probe.ev = "tick" /\ probe.hhit /\ probe.hdx < 0
  /\ player.x = EPS

\* C18: at the end of every tick |vx| <= MAX_SPEED_X * FRICTION, and the
\* horizontal step of a tick is shorter than one tile.
C18_SpeedBounded ==
  /\ Abs(player.vx) * 100 <= MAX_SPEED_X * VS * FRICTION
  /\ probe.ev = "tick" => Abs(probe.hdx) < TILE

\* C18 witness: a tick ends with the body running right at the speed at
\* which acceleration and friction balance, with the key still held
C18_Witness ==
  /\ probe.ev = "tick" /\ keys["ArrowRight"]
  /\ player.vx = probe.hdx /\ player.vx > 169 * VS

\* the tick just run moved the body down and its vertical pass met no
\* solid tile (a tick with a jump impulse moves it up)
Falling == probe.ev = "tick" /\ probe.vdy > 0 /\ ~probe.vhit

GroundOnlyByLanding ==
  (probe.ev = "tick" /\ player.onGround) => (probe.vhit /\ probe.vdy > 0)

JumpTokens == {JUMP, LEFT_JUMP, RIGHT_JUMP}

\* C17: after applyAction, Space is set exactly when the token is jump,
\* left_jump or right_jump and player.onGround was true when it was applied;
\* ArrowLeft and ArrowRight are set as the token names, never both; and a
\* tick applies a jump impulse for the Space flag of the policy only if the
\* body was grounded when the action was applied and onGroundLast is true.
C17_MapperChecksGround ==
  /\ probe.ev = "resolve" =>
       /\ keys["Space"] <=> (probe.appliedToken \in JumpTokens /\ probe.appliedGrounded)
       /\ keys["ArrowLeft"] <=> probe.appliedToken \in {LEFT, LEFT_JUMP}
       /\ keys["ArrowRight"] <=> probe.appliedToken \in {RIGHT, RIGHT_JUMP}
       /\ ~(keys["ArrowLeft"] /\ keys["ArrowRight"])
  /\ (probe.ev = "tick" /\ probe.impulse /\ keys["Space"] /\ ~keys["KeyZ"]) =>
       /\ probe.appliedToken \in JumpTokens
       /\ probe.appliedGrounded
       /\ probe.groundedLast

\* C17 witness: a tick applies the impulse for a left_jump that was applied
\* while the body stood on the ground
C17_Witness ==
  /\ probe.ev = "tick" /\ probe.impulse
  /\ probe.appliedToken = LEFT_JUMP /\ probe.appliedGrounded
  /\ keys["Space"] /\ keys["ArrowLeft"] /\ ~keys["ArrowRight"]

\* C19: a grounded body has nearGrid[0][0] = 0 in its snapshot, and for
\* every snapshot sent the fallback answers right_jump exactly when the
\* snapshot is grounded, and right when it is airborne.
C19_GroundedFeetCellEmpty ==
  /\ player.onGround => nearGridOf(player)[1][1] = 0
  /\ \A i \in DOMAIN pending :
       LET st == pending[i].state
           answer == heuristic(wireState(st))
       IN  /\ st.player.onGround => st.nearGrid[1][1] = 0
           /\ answer = RIGHT_JUMP <=> st.player.onGround
           /\ answer = RIGHT <=> ~st.player.onGround

\* C19 witness: a snapshot taken on flat ground, nothing ahead and solid
\* ground below, that the fallback answers with right_jump
C19_Witness ==
  /\ pending # <<>>
  /\ pending[1].state.player.onGround
  /\ pending[1].state.nearGrid[1][1] = 0
  /\ pending[1].state.nearGrid[1][2] = 0
  /\ pending[1].state.nearGrid[1][3] = 0
  /\ isSolidTile((player.x + PLAYER_W \div 2) \div TILE,
                 (player.y + PLAYER_H) \div TILE + 1)
  /\ heuristic(wireState(pending[1].state)) = RIGHT_JUMP

(***************************************************************************)
(* Properties of the functions applied alone.                              *)
(***************************************************************************)
\* C11: the snapshot of a body at (x, y) has a nearGrid of 5 rows of 9 cells,
\* each 0 or 1, and nearGrid[r][c] = 1 exactly when the tile at column
\* floor((x + w/2) / TILE) + c and row floor((y + h) / TILE) - r is solid,
\* also where the window reaches outside the level.
C11_GridIsWindowOfTiles ==
  call.fn = "snapshotState" =>
    LET g == call.out.nearGrid
        footCol == (call.arg.x + PLAYER_W \div 2) \div TILE
        footRow == (call.arg.y + PLAYER_H) \div TILE
    IN  /\ Len(g) = 5
        /\ \A r \in 0..4 :
             /\ Len(g[r + 1]) = 9
             /\ \A c \in 0..8 :
                  /\ g[r + 1][c + 1] \in {0, 1}
                  /\ g[r + 1][c + 1] = 1 <=> isSolidTile(footCol + c, footRow - r)

\* C11 witness: a snapshot taken on the ground near the right end of the
\* level: its window reaches past the last column, the ninth cell of the
\* foot row is solid (outside) and the first is empty
C11_Witness ==
  /\ call.fn = "snapshotState"
  /\ call.arg.x >= 112 * TILE
  /\ call.arg.y = 16 * TILE + 2 * PX - EPS
  /\ call.out.nearGrid[1][9] = 1
  /\ call.out.nearGrid[1][1] = 0

\* C12: isSolidTile is true for every coordinate outside the level, inside
\* the level it is true exactly when the cell of the level is 1, and the
\* cell it reads, when it reads one, is a cell of WORLD.
C12_ClosedWorld ==
  (call.fn = "isSolidTile" /\ call.done) =>
    LET outside == call.tx < 0 \/ call.ty < 0
                   \/ call.tx >= LEVEL_W \/ call.ty >= LEVEL_H
    IN  /\ outside => call.out
        /\ ~outside => (call.out <=> makeLevel[call.ty][call.tx] = 1)
        /\ call.index # <<>> =>
             /\ call.index[1] \in DOMAIN WORLD
             /\ call.index[2] \in DOMAIN WORLD[call.index[1]]
        /\ ~outside => call.index = <<call.ty, call.tx>>

\* C12 witness: a lookup one column past the right edge answers solid
C12_Witness ==
  /\ call.fn = "isSolidTile" /\ call.done
  /\ call.tx = LEVEL_W /\ call.ty = 0
  /\ call.out

\* C16: after reset has been called twice in a row the body is as it was
\* after the first call.
C16_ResetIdempotent ==
  (call.fn = "reset" /\ call.n >= 2) => player = call.before

\* C16 witness: reset called twice on a body that was moving left elsewhere
C16_Witness ==
  /\ call.fn = "reset" /\ call.n = 2
  /\ call.arg.facing = -1 /\ call.arg.x # TILE * 2
  /\ player = call.before

(***************************************************************************)
(* The A key: what still happens while aiEnabled is false.                 *)
(***************************************************************************)
IntentFlags == {"ArrowLeft", "ArrowRight", "Space"}

KeyboardEvent == probe'.ev \in {"keydown", "keyup"}

\* no call of requestAction is added by the step
NoRequestIssued == Len(pending') <= Len(pending)

\* C21: while aiEnabled is false no step issues a decision request, and
\* only keyboard events change the intent flags ArrowLeft, ArrowRight,
\* Space or lastAction; a decision issued before the toggle and resolving
\* after it changes none of them.
C21_OffMeansKeyboardOnly ==
  [][~aiEnabled =>
       /\ NoRequestIssued
       /\ \/ KeyboardEvent
          \/ /\ \A c \in IntentFlags : keys'[c] = keys[c]
             /\ lastAction' = lastAction]_vars

(***************************************************************************)
(* The game played on the right arrow and the Space key, each pressed once *)
(* and held, while the server cannot be reached.                           *)
(***************************************************************************)
RunTicks == 90

RunCodes == {"ArrowRight", "Space"}

InitRun == Init

FrameRun == pending = <<>> /\ Tick(RunTicks)
RefusedRun == Fail(1, now)
PressRun == \E code \in RunCodes :
              ~keys[code] /\ KeyDown(code) /\ UNCHANGED presses

NextRun == FrameRun \/ RefusedRun \/ PressRun

SpecRun == InitRun /\ [][NextRun]_vars

(***************************************************************************)
(* The body against the tiles once both passes of a tick are done.         *)
(***************************************************************************)
\* the box w x h at (x, y) and a solid tile have a point in common
TouchesSolid(x, y) ==
  \E tx \in (x \div TILE)..((x + PLAYER_W) \div TILE),
     ty \in (y \div TILE)..((y + PLAYER_H) \div TILE) :
    /\ isSolidTile(tx, ty)
    /\ Min(x + PLAYER_W, (tx + 1) * TILE) > Max(x, tx * TILE)
    /\ Min(y + PLAYER_H, (ty + 1) * TILE) > Max(y, ty * TILE)

\* C22: at the end of every tick, after the horizontal and the vertical
\* pass, the body's bounding box overlaps no solid tile.
C22_NoOverlapAfterTick ==
  probe.ev = "tick" => ~TouchesSolid(probe.gx, probe.gy)

====
